---- MODULE Spec2Model ----
(***************************************************************************)
(* The investor ledger of client-management-backend (src/index.js): the    *)
(* investors and transactions tables, and the request handlers that read   *)
(* and write them.  Every handler is an async function: it runs without    *)
(* interruption between two awaits, and each `await pool.query(...)` is    *)
(* one storage round-trip on the shared pool, executed as a statement of   *)
(* its own (the code opens no BEGIN/COMMIT block).  A handler is therefore *)
(* a process whose steps are its queries; the local computation that       *)
(* follows a query belongs to that query's step, and the synchronous entry *)
(* of a handler belongs to the step of its first query.  A query may fail  *)
(* (pool.query rejects): the statement has no effect and the handler's     *)
(* catch block answers 500.                                                *)
(*                                                                         *)
(* Numbers: amounts are whole numbers and ROIs are whole percentages       *)
(* chosen so that accountBalance * roi / 100 is whole; on these values the *)
(* double arithmetic of the handlers is exact, and it is modelled by       *)
(* integer arithmetic.  Request fields are character sequences, as they    *)
(* arrive in the JSON body, or Undefined when the field is absent.         *)
(*                                                                         *)
(* The schema of the two tables is not part of the sources.  The store of  *)
(* the model enforces no foreign key from transactions.investor_id to      *)
(* investors.id, and it stamps a new transaction row with the instant of   *)
(* its INSERT (the default of transactions.transaction_date).              *)
(***************************************************************************)
EXTENDS Integers, Sequences, FiniteSets, TLC

\* Bounds of the model.
MaxInvestors == 1       \* investors ever created (ids 1..MaxInvestors)
MaxTransactions == 3    \* transaction rows ever inserted
MaxClock == 1           \* instants the store's clock passes through (0..MaxClock)

\* Concurrent requests in flight: two handler activations.
Procs == {"r1", "r2"}

Null == "null"             \* SQL NULL / a local not yet assigned
Undefined == "undefined"   \* a transaction_type missing from the request body
\* A textual field missing from the body: String(undefined), which holds no digit.
Missing == <<Undefined>>
\* parseInt/parseFloat return a sequence: <<n>> for the number n, <<>> for NaN.
NaN == <<>>
isNaN(x) == x = NaN

VARIABLES
    investors,        \* table investors: set of rows
    transactions,     \* table transactions: set of rows
    nextInvestorId,   \* serial of investors.id
    nextTransactionId,\* serial of transactions.id
    now,              \* the store's clock, read by the default of transaction_date
    req,              \* per activation: the handler, its position, its locals
    response          \* the response sent last

vars == <<investors, transactions, nextInvestorId, nextTransactionId, now, req, response>>
db == <<investors, transactions, nextInvestorId, nextTransactionId>>

----------------------------------------------------------------------------
\* Text <-> number conversions (JavaScript parseInt/parseFloat, pg's NUMERIC text)

Digits == <<"0", "1", "2", "3", "4", "5", "6", "7", "8", "9">>

IsDigit(c) == c \in {"0", "1", "2", "3", "4", "5", "6", "7", "8", "9"}

DigitValue(c) ==
    CASE c = "0" -> 0 [] c = "1" -> 1 [] c = "2" -> 2 [] c = "3" -> 3
      [] c = "4" -> 4 [] c = "5" -> 5 [] c = "6" -> 6 [] c = "7" -> 7
      [] c = "8" -> 8 [] c = "9" -> 9

RECURSIVE DigitsPrefix(_, _, _)
\* value of the longest run of digits of s starting at position i
DigitsPrefix(s, i, acc) ==
    IF i > Len(s) \/ ~IsDigit(s[i]) THEN acc
    ELSE DigitsPrefix(s, i + 1, acc * 10 + DigitValue(s[i]))

\* The numeric prefix of a string: optional sign, then digits; NaN when there
\* is no digit there.  (Fractions and exponents are not among the inputs, so
\* parseInt(s, 10) and parseFloat(s) read the same prefix.)
NumericPrefix(s) ==
    IF Len(s) = 0 THEN NaN
    ELSE LET neg == s[1] = "-"
             first == IF s[1] \in {"-", "+"} THEN 2 ELSE 1
         IN IF first > Len(s) \/ ~IsDigit(s[first]) THEN NaN
            ELSE IF neg THEN <<0 - DigitsPrefix(s, first, 0)>>
                 ELSE <<DigitsPrefix(s, first, 0)>>

parseInt(s) == NumericPrefix(s)

parseFloat(s) == NumericPrefix(s)

RECURSIVE NaturalText(_)
NaturalText(n) ==
    IF n < 10 THEN <<Digits[n + 1]>>
    ELSE NaturalText(n \div 10) \o <<Digits[(n % 10) + 1]>>

\* pg returns a NUMERIC column (and a SUM over one) as decimal text.
NumericText(n) == IF n < 0 THEN <<"-">> \o NaturalText(0 - n) ELSE NaturalText(n)

----------------------------------------------------------------------------
\* Request inputs

InvestorIdInputs ==
    {NaturalText(i) : i \in 1..(MaxInvestors + 1)} \cup {<<"x">>}

TransactionTypeInputs == {"Deposit", "Withdrawal", "Transfer"}

AmountInputs ==
    {<<"4", "0">>, <<"1", "0", "0">>, <<"0">>, <<"-", "4", "0">>,
     <<"a", "b", "c">>, Missing}

RoiInputs == {<<"1", "0">>, <<"0">>, Missing}

----------------------------------------------------------------------------
\* Handler activations

Idle ==
    [op |-> "none", pc |-> "idle", investorId |-> Null, transaction_type |-> Null,
     amountValue |-> Null, roi |-> Null, accountBalance |-> Null,
     currentBalance |-> Null]

NoResponse ==
    [op |-> "none", status |-> 0, message |-> Null, investorId |-> Null,
     account_balance |-> Null, current_balance |-> Null, rows |-> <<>>]

\* res.status(code).json({error: ...})
ErrorResponse(op, code, error) ==
    [NoResponse EXCEPT !.op = op, !.status = code, !.message = error]

\* the handler answers and its activation is over
Respond(p, r) ==
    /\ req' = [req EXCEPT ![p] = Idle]
    /\ response' = r

\* no activation of a handler occupies p
Free(p) == req[p].pc = "idle"

\* transaction rows still to be inserted by the activations in flight
PendingInserts ==
    Cardinality({q \in Procs : req[q].op = "process" /\
                     req[q].pc \in {"selectSums", "insertTransaction"}})

----------------------------------------------------------------------------
\* Queries of POST /transactions/process

RECURSIVE SumAmounts(_)
SumAmounts(rows) ==
    IF rows = {} THEN 0
    ELSE LET r == CHOOSE x \in rows : TRUE
         IN r.amount + SumAmounts(rows \ {r})

\* mutant: the WHERE clause is lost
SelectRoi_AnyInvestor(investorId) == investors

\* SELECT roi FROM investors WHERE id = $1
SelectRoi(investorId) == {r \in investors : r.id = investorId}

\* COALESCE(SUM(CASE WHEN transaction_type = 'Deposit' THEN amount ELSE 0 END), 0)
TotalDeposits(investorId) ==
    SumAmounts({t \in transactions :
                   t.investor_id = investorId /\ t.transaction_type = "Deposit"})

\* COALESCE(SUM(CASE WHEN transaction_type = 'Withdrawal' THEN amount ELSE 0 END), 0)
TotalWithdrawals(investorId) ==
    SumAmounts({t \in transactions :
                   t.investor_id = investorId /\ t.transaction_type = "Withdrawal"})

\* mutant: the comparison is turned around
InsufficientFunds_Reversed(accountBalance, amountValue) == amountValue < accountBalance

\* mutant: the full balance may not be withdrawn
InsufficientFunds_Strict(accountBalance, amountValue) == accountBalance <= amountValue

\* the funds check of a Withdrawal: true when the withdrawal is refused
InsufficientFunds(accountBalance, amountValue) == accountBalance < amountValue

\* mutant: the ROI is taken as a fraction, not as a percentage
CurrentBalance_RoiAsFraction(accountBalance, roi) ==
    accountBalance + (accountBalance * roi)

\* let currentBalance = accountBalance + (accountBalance * (roi / 100))
CurrentBalance(accountBalance, roi) ==
    accountBalance + ((accountBalance * roi) \div 100)

----------------------------------------------------------------------------
\* POST /transactions/process

InternalServerError(op) == ErrorResponse(op, 500, "Internal server error")

\* mutant: a zero amount passes
InvalidTransactionDetails_ZeroPasses(investorId, amountValue) ==
    isNaN(investorId) \/ isNaN(amountValue) \/ amountValue[1] < 0

\* if (isNaN(investorId) || isNaN(amountValue) || amountValue <= 0)
InvalidTransactionDetails(investorId, amountValue) ==
    isNaN(investorId) \/ isNaN(amountValue) \/ amountValue[1] <= 0

\* entry: parse and validate the body, then SELECT roi ; 404 when no row
ProcessTransaction(p, investor_id, transaction_type, amount) ==
    /\ Free(p)
    /\ (nextTransactionId - 1) + PendingInserts < MaxTransactions
    /\ UNCHANGED <<db, now>>
    /\ LET investorId == parseInt(investor_id)
           amountValue == parseFloat(amount)
       IN IF InvalidTransactionDetails(investorId, amountValue)
          THEN Respond(p, ErrorResponse("process", 400, "Invalid transaction details"))
          ELSE LET rows == SelectRoi(investorId[1])
               IN IF rows = {}
                  THEN Respond(p, ErrorResponse("process", 404, "Investor not found"))
                  ELSE LET row == CHOOSE r \in rows : TRUE
                       IN /\ req' = [req EXCEPT ![p] =
                                 [Idle EXCEPT !.op = "process", !.pc = "selectSums",
                                              !.investorId = investorId[1],
                                              !.transaction_type = transaction_type,
                                              !.amountValue = amountValue[1],
                                              !.roi = parseFloat(NumericText(row.roi))[1]]]
                          /\ UNCHANGED response

\* SELECT the two sums, then apply the new transaction and compute the balances
ProcessSelectSums(p) ==
    /\ req[p].op = "process" /\ req[p].pc = "selectSums"
    /\ LET totalDeposits == parseFloat(NumericText(TotalDeposits(req[p].investorId)))[1]
           totalWithdrawals == parseFloat(NumericText(TotalWithdrawals(req[p].investorId)))[1]
           before == totalDeposits - totalWithdrawals
           type == req[p].transaction_type
           amountValue == req[p].amountValue
       IN IF type = "Withdrawal" /\ InsufficientFunds(before, amountValue)
          THEN Respond(p, ErrorResponse("process", 400, "Insufficient funds for withdrawal"))
          ELSE LET accountBalance ==
                       IF type = "Deposit" THEN before + amountValue
                       ELSE IF type = "Withdrawal" THEN before - amountValue
                       ELSE before
               IN /\ req' = [req EXCEPT ![p].pc = "insertTransaction",
                                        ![p].accountBalance = accountBalance,
                                        ![p].currentBalance =
                                            CurrentBalance(accountBalance, req[p].roi)]
                  /\ UNCHANGED response
    /\ UNCHANGED <<db, now>>

\* INSERT INTO transactions (investor_id, transaction_type, amount)
ProcessInsertTransaction(p) ==
    /\ req[p].op = "process" /\ req[p].pc = "insertTransaction"
    /\ transactions' = transactions \cup
           {[id |-> nextTransactionId,
             investor_id |-> req[p].investorId,
             transaction_type |-> IF req[p].transaction_type = Undefined THEN Null
                                  ELSE req[p].transaction_type,
             amount |-> req[p].amountValue,
             transaction_date |-> now]}
    /\ nextTransactionId' = nextTransactionId + 1
    /\ req' = [req EXCEPT ![p].pc = "updateInvestor"]
    /\ UNCHANGED <<investors, nextInvestorId, now, response>>

\* mutant: the two parameters are bound the other way round
UpdateInvestor_Swapped(investorId, accountBalance, currentBalance) ==
    {IF r.id = investorId
     THEN [r EXCEPT !.account_balance = currentBalance,
                    !.current_balance = accountBalance]
     ELSE r : r \in investors}

\* UPDATE investors SET account_balance = $1, current_balance = $2 WHERE id = $3
\* with [accountBalance, currentBalance, investorId]: the table afterwards
UpdateInvestor(investorId, accountBalance, currentBalance) ==
    {IF r.id = investorId
     THEN [r EXCEPT !.account_balance = accountBalance,
                    !.current_balance = currentBalance]
     ELSE r : r \in investors}

\* the UPDATE ; then 200 with the balances computed above
ProcessUpdateInvestor(p) ==
    /\ req[p].op = "process" /\ req[p].pc = "updateInvestor"
    /\ investors' = UpdateInvestor(req[p].investorId, req[p].accountBalance,
                                   req[p].currentBalance)
    /\ Respond(p, [NoResponse EXCEPT !.op = "process", !.status = 200,
                                     !.message = "successful",
                                     !.account_balance = req[p].accountBalance,
                                     !.current_balance = req[p].currentBalance])
    /\ UNCHANGED <<transactions, nextInvestorId, nextTransactionId, now>>

----------------------------------------------------------------------------
\* POST /investors/add

NameInputs == {"Ann", Undefined}
AccountTypeInputs == {"Savings", Undefined}
InvestmentTermInputs == {"12", Undefined}

\* JavaScript `!x` on a textual body field: absent, or the empty string
Falsy(x) == x = Missing \/ x = <<>>

\* mutant: the ROI is written to the balance columns
NewInvestor_RoiAsBalance(id, roi) ==
    [id |-> id, roi |-> roi, account_balance |-> roi, current_balance |-> roi,
     status |-> "Active"]

\* the row of INSERT INTO investors (..., roi, account_balance, current_balance,
\* date_joined, status) VALUES (..., $4, 0.00, 0.00, CURRENT_DATE, 'Active')
NewInvestor(id, roi) ==
    [id |-> id, roi |-> roi, account_balance |-> 0, current_balance |-> 0,
     status |-> "Active"]

\* the required-fields check, then the INSERT ... RETURNING * ; then 201 with
\* the new row
AddInvestor(p, name, account_type, investment_term, roi) ==
    /\ Free(p)
    /\ nextInvestorId <= MaxInvestors
    /\ IF name = Undefined \/ account_type = Undefined
          \/ investment_term = Undefined \/ Falsy(roi)
       THEN /\ Respond(p, ErrorResponse("add", 400, "All fields are required."))
            /\ UNCHANGED <<db, now>>
       ELSE LET row == NewInvestor(nextInvestorId, parseFloat(roi)[1])
            IN /\ investors' = investors \cup {row}
               /\ nextInvestorId' = nextInvestorId + 1
               /\ Respond(p, [NoResponse EXCEPT
                                 !.op = "add", !.status = 201,
                                 !.investorId = row.id,
                                 !.account_balance = row.account_balance,
                                 !.current_balance = row.current_balance])
               /\ UNCHANGED <<transactions, nextTransactionId, now>>

----------------------------------------------------------------------------
\* DELETE /investors/:id  (the first registration of the route answers every
\* request; the second one, further down the file, is never reached)

\* PostgreSQL's integer input of the text parameter $1: digits only
PgInteger(s) ==
    IF Len(s) > 0 /\ \A k \in 1..Len(s) : IsDigit(s[k])
    THEN <<DigitsPrefix(s, 1, 0)>> ELSE NaN

\* DELETE FROM transactions WHERE investor_id = $1 ; a parameter that is no
\* integer makes the statement throw
DeleteInvestor(p, id) ==
    /\ Free(p)
    /\ IF isNaN(PgInteger(id))
       THEN /\ Respond(p, InternalServerError("delete"))
            /\ UNCHANGED <<db, now>>
       ELSE /\ transactions' =
                   {t \in transactions : t.investor_id # PgInteger(id)[1]}
            /\ req' = [req EXCEPT ![p] =
                          [Idle EXCEPT !.op = "delete", !.pc = "deleteInvestor",
                                       !.investorId = PgInteger(id)[1]]]
            /\ UNCHANGED <<investors, nextInvestorId, nextTransactionId, now, response>>

\* DELETE FROM investors WHERE id = $1 RETURNING * ; 404 when no row, else 200
DeleteInvestorRow(p) ==
    /\ req[p].op = "delete" /\ req[p].pc = "deleteInvestor"
    /\ LET deleted == {r \in investors : r.id = req[p].investorId}
       IN /\ investors' = investors \ deleted
          /\ Respond(p, IF Cardinality(deleted) = 0
                        THEN ErrorResponse("delete", 404, "Investor not found")
                        ELSE [NoResponse EXCEPT
                                 !.op = "delete", !.status = 200,
                                 !.message = "Investor deleted successfully"])
    /\ UNCHANGED <<transactions, nextInvestorId, nextTransactionId, now>>

----------------------------------------------------------------------------
\* GET /transactions/:id

\* mutant: oldest first
OrderByTransactionDateDesc_Ascending(rows) ==
    {s \in [1..Cardinality(rows) -> rows] :
        /\ \A a, b \in 1..Cardinality(rows) : a # b => s[a] # s[b]
        /\ \A a \in 1..(Cardinality(rows) - 1) :
              s[a].transaction_date <= s[a + 1].transaction_date}

\* ORDER BY transaction_date DESC: every arrangement of the selected rows in
\* which no row comes before a later one (rows of one instant in any order)
OrderByTransactionDateDesc(rows) ==
    {s \in [1..Cardinality(rows) -> rows] :
        /\ \A a, b \in 1..Cardinality(rows) : a # b => s[a] # s[b]
        /\ \A a \in 1..(Cardinality(rows) - 1) :
              s[a].transaction_date >= s[a + 1].transaction_date}

\* SELECT transaction_date, transaction_type, amount FROM transactions
\* WHERE investor_id = $1 ORDER BY transaction_date DESC : the possible results
SelectTransactions(investorId) ==
    {[k \in 1..Len(s) |-> [transaction_date |-> s[k].transaction_date,
                           transaction_type |-> s[k].transaction_type,
                           amount |-> s[k].amount]] :
        s \in OrderByTransactionDateDesc(
                  {t \in transactions : t.investor_id = investorId})}

\* 400 when the id is no number; else the one SELECT, answered with its rows
ListTransactions(p, id) ==
    /\ Free(p)
    /\ LET investorId == parseInt(id)
       IN IF isNaN(investorId)
          THEN Respond(p, ErrorResponse("list", 400, "Invalid investor ID"))
          ELSE \E rows \in SelectTransactions(investorId[1]) :
                  Respond(p, [NoResponse EXCEPT !.op = "list", !.status = 200,
                                                !.rows = rows])
    /\ UNCHANGED <<db, now>>

----------------------------------------------------------------------------
\* POST /transactions/deposit and POST /transactions/withdrawal: one INSERT
\* of the body's investor_id and amount, handed to the store as they come.

\* PostgreSQL's numeric input of the text parameter $2: optional sign, digits
PgNumeric(s) ==
    IF Len(s) > 0 /\ s[1] \in {"-", "+"} /\ ~isNaN(PgInteger(Tail(s)))
    THEN NumericPrefix(s)
    ELSE PgInteger(s)

\* the body fields of these two handlers, present in the request
LegacyAmountInputs == {<<"4", "0">>, <<"a", "b", "c">>}

\* INSERT INTO transactions (investor_id, transaction_type, amount)
\* VALUES ($1, <type>, $2) ; a parameter the column cannot read makes the
\* statement throw
InsertTransaction(p, op, transaction_type, investor_id, amount) ==
    /\ Free(p)
    /\ (nextTransactionId - 1) + PendingInserts < MaxTransactions
    /\ IF isNaN(PgInteger(investor_id)) \/ isNaN(PgNumeric(amount))
       THEN /\ Respond(p, InternalServerError(op))
            /\ UNCHANGED <<db, now>>
       ELSE /\ transactions' = transactions \cup
                   {[id |-> nextTransactionId,
                     investor_id |-> PgInteger(investor_id)[1],
                     transaction_type |-> transaction_type,
                     amount |-> PgNumeric(amount)[1],
                     transaction_date |-> now]}
            /\ nextTransactionId' = nextTransactionId + 1
            /\ Respond(p, [NoResponse EXCEPT !.op = op, !.status = 200,
                              !.message = IF transaction_type = "Deposit"
                                          THEN "Deposit successful"
                                          ELSE "Withdrawal successful"])
            /\ UNCHANGED <<investors, nextInvestorId, now>>

TransactionsDeposit(p, investor_id, amount) ==
    InsertTransaction(p, "deposit", "Deposit", investor_id, amount)

TransactionsWithdrawal(p, investor_id, amount) ==
    InsertTransaction(p, "withdrawal", "Withdrawal", investor_id, amount)

----------------------------------------------------------------------------
\* Time passes at the store.
Tick ==
    /\ now < MaxClock
    /\ now' = now + 1
    /\ UNCHANGED <<db, req, response>>

----------------------------------------------------------------------------
\* A storage call fails: pool.query rejects, the statement has no effect, the
\* catch block of the handler answers 500.

Handlers == {"process", "add", "delete"}

\* the first query of a handler, issued by a request that passed validation
FirstQueryFails(p, op) ==
    /\ Free(p)
    /\ Respond(p, InternalServerError(op))
    /\ UNCHANGED <<db, now>>

\* a later query of a handler
QueryFails(p) ==
    /\ ~Free(p)
    /\ Respond(p, InternalServerError(req[p].op))
    /\ UNCHANGED <<db, now>>

----------------------------------------------------------------------------
\* The program: the endpoints of the server of src/index.js:1-606 that write
\* the investors or the transactions table, requests interleaved at their
\* queries, storage calls that may fail.  (The store's clock stands still here:
\* no property checked under this specification reads a timestamp.  The
\* endpoints of the second server file, src/index.js:608-1051, and the
\* read-only GET /transactions/:id are in SpecWriters and SpecHistory.)

Init ==
    /\ investors = {}
    /\ transactions = {}
    /\ nextInvestorId = 1
    /\ nextTransactionId = 1
    /\ now = 0
    /\ req = [p \in Procs |-> Idle]
    /\ response = NoResponse

Step(p) ==
    \/ \E investor_id \in InvestorIdInputs, transaction_type \in TransactionTypeInputs,
          amount \in AmountInputs :
          ProcessTransaction(p, investor_id, transaction_type, amount)
    \/ ProcessSelectSums(p)
    \/ ProcessInsertTransaction(p)
    \/ ProcessUpdateInvestor(p)
    \/ \E name \in NameInputs, account_type \in AccountTypeInputs,
          investment_term \in InvestmentTermInputs, roi \in RoiInputs :
          AddInvestor(p, name, account_type, investment_term, roi)
    \/ \E id \in InvestorIdInputs : DeleteInvestor(p, id)
    \/ DeleteInvestorRow(p)
    \/ \E op \in Handlers : FirstQueryFails(p, op)
    \/ QueryFails(p)

Next == \E p \in Procs : Step(p)

Spec == Init /\ [][Next]_vars

\* The same program with one request handled at a time: a handler takes a
\* step only while no other activation is in flight.
Alone(p) == \A q \in Procs \ {p} : Free(q)

NextSeq ==
    \E p \in Procs :
        \/ Alone(p) /\ \E investor_id \in InvestorIdInputs,
                          transaction_type \in TransactionTypeInputs,
                          amount \in AmountInputs :
                          ProcessTransaction(p, investor_id, transaction_type, amount)
        \/ Alone(p) /\ ProcessSelectSums(p)
        \/ Alone(p) /\ ProcessInsertTransaction(p)
        \/ Alone(p) /\ ProcessUpdateInvestor(p)
        \/ Alone(p) /\ \E name \in NameInputs, account_type \in AccountTypeInputs,
                          investment_term \in InvestmentTermInputs, roi \in RoiInputs :
                          AddInvestor(p, name, account_type, investment_term, roi)
        \/ Alone(p) /\ \E id \in InvestorIdInputs : DeleteInvestor(p, id)
        \/ Alone(p) /\ DeleteInvestorRow(p)
        \/ Alone(p) /\ \E op \in Handlers : FirstQueryFails(p, op)
        \/ Alone(p) /\ QueryFails(p)

SpecSeq == Init /\ [][NextSeq]_vars

\* Only POST /transactions/process, requests interleaved, no storage failure,
\* on investors that have been created (zero balances, no transaction).
InitLedger ==
    /\ investors \in
           {{[id |-> i, roi |-> rois[i], account_balance |-> 0,
              current_balance |-> 0, status |-> "Active"] : i \in 1..MaxInvestors} :
            rois \in [1..MaxInvestors -> {parseFloat(r)[1] : r \in RoiInputs \ {Missing}}]}
    /\ transactions = {}
    /\ nextInvestorId = MaxInvestors + 1
    /\ nextTransactionId = 1
    /\ now = 0
    /\ req = [p \in Procs |-> Idle]
    /\ response = NoResponse

NextLedger ==
    \E p \in Procs :
        \/ \E investor_id \in InvestorIdInputs,
              transaction_type \in TransactionTypeInputs, amount \in AmountInputs :
              ProcessTransaction(p, investor_id, transaction_type, amount)
        \/ ProcessSelectSums(p)
        \/ ProcessInsertTransaction(p)
        \/ ProcessUpdateInvestor(p)

SpecLedger == InitLedger /\ [][NextLedger]_vars

\* The same on investors that hold a balance: a Deposit of 100 was recorded
\* for each of them before (its row and the balances it stored are there).
\* These earlier rows carry ids below the serial's next value; no statement of
\* the program reads transactions.id.
InitFunded ==
    /\ investors \in
           {{[id |-> i, roi |-> rois[i], account_balance |-> 100,
              current_balance |-> CurrentBalance(100, rois[i]),
              status |-> "Active"] : i \in 1..MaxInvestors} :
            rois \in [1..MaxInvestors -> {parseFloat(r)[1] : r \in RoiInputs \ {Missing}}]}
    /\ transactions =
           {[id |-> 0 - i, investor_id |-> i, transaction_type |-> "Deposit",
             amount |-> 100, transaction_date |-> 0] : i \in 1..MaxInvestors}
    /\ nextInvestorId = MaxInvestors + 1
    /\ nextTransactionId = 1
    /\ now = 0
    /\ req = [p \in Procs |-> Idle]
    /\ response = NoResponse

SpecFunded == InitFunded /\ [][NextLedger]_vars

\* POST /transactions/process called again and again, each call after the
\* answer to the one before, no storage failure, on investors that exist.
NextExample ==
    \E p \in Procs :
        \/ Alone(p) /\ \E investor_id \in InvestorIdInputs,
                          transaction_type \in TransactionTypeInputs,
                          amount \in AmountInputs :
                          ProcessTransaction(p, investor_id, transaction_type, amount)
        \/ Alone(p) /\ ProcessSelectSums(p)
        \/ Alone(p) /\ ProcessInsertTransaction(p)
        \/ Alone(p) /\ ProcessUpdateInvestor(p)

SpecExample == InitLedger /\ [][NextExample]_vars

\* Every endpoint that writes the investors or the transactions table, those of
\* the second server file (POST /transactions/deposit, /transactions/withdrawal)
\* included, on the one database; one request at a time.
NextWriters ==
    \E p \in Procs :
        \/ Alone(p) /\ \E investor_id \in InvestorIdInputs,
                          transaction_type \in TransactionTypeInputs,
                          amount \in AmountInputs :
                          ProcessTransaction(p, investor_id, transaction_type, amount)
        \/ Alone(p) /\ ProcessSelectSums(p)
        \/ Alone(p) /\ ProcessInsertTransaction(p)
        \/ Alone(p) /\ ProcessUpdateInvestor(p)
        \/ Alone(p) /\ \E name \in NameInputs, account_type \in AccountTypeInputs,
                          investment_term \in InvestmentTermInputs, roi \in RoiInputs :
                          AddInvestor(p, name, account_type, investment_term, roi)
        \/ Alone(p) /\ \E id \in InvestorIdInputs : DeleteInvestor(p, id)
        \/ Alone(p) /\ DeleteInvestorRow(p)
        \/ Alone(p) /\ \E investor_id \in InvestorIdInputs,
                          amount \in LegacyAmountInputs :
                          TransactionsDeposit(p, investor_id, amount)
        \/ Alone(p) /\ \E investor_id \in InvestorIdInputs,
                          amount \in LegacyAmountInputs :
                          TransactionsWithdrawal(p, investor_id, amount)

SpecWriters == Init /\ [][NextWriters]_vars

\* The transaction history: rows written over time by POST /transactions/process,
\* POST /transactions/deposit and POST /transactions/withdrawal, read by
\* GET /transactions/:id ; one request at a time, on investors that exist.
NextHistory ==
    \/ Tick
    \/ \E p \in Procs :
           \/ Alone(p) /\ \E investor_id \in InvestorIdInputs,
                             transaction_type \in TransactionTypeInputs,
                             amount \in AmountInputs :
                             ProcessTransaction(p, investor_id, transaction_type, amount)
           \/ Alone(p) /\ ProcessSelectSums(p)
           \/ Alone(p) /\ ProcessInsertTransaction(p)
           \/ Alone(p) /\ ProcessUpdateInvestor(p)
           \/ Alone(p) /\ \E investor_id \in InvestorIdInputs,
                             amount \in LegacyAmountInputs :
                             TransactionsDeposit(p, investor_id, amount)
           \/ Alone(p) /\ \E id \in InvestorIdInputs : ListTransactions(p, id)

SpecHistory == InitLedger /\ [][NextHistory]_vars

----------------------------------------------------------------------------
\* Vocabulary of the properties

\* the principal derived from the log: sum(Deposit) - sum(Withdrawal)
LogBalance(i) == TotalDeposits(i) - TotalWithdrawals(i)

RowsOf(i) == {t \in transactions : t.investor_id = i}

\* a POST /transactions/process for investor i has not answered yet
InProgress(i) ==
    \E p \in Procs : req[p].op = "process" /\ req[p].investorId = i

Quiescent == \A p \in Procs : Free(p)

\* amounts the validation must refuse: missing, non-numeric, zero, negative
InvalidAmounts == {Missing, <<"a", "b", "c">>, <<"0">>, <<"-", "4", "0">>}

ValidAmounts == AmountInputs \ InvalidAmounts

\* what GET /transactions/:id shows of a row
Entry(t) ==
    [transaction_date |-> t.transaction_date,
     transaction_type |-> t.transaction_type, amount |-> t.amount]

----------------------------------------------------------------------------
\* C1 (cache invariant): for every investor with no recordTransaction in
\* progress, the stored account_balance is sum(Deposit) - sum(Withdrawal) over
\* its rows and the stored current_balance is account_balance * (1 + roi/100).
\* Checked under SpecLedger; refuted by two interleaved requests (lost update).
C1_CacheInvariant ==
    \A r \in investors :
        ~InProgress(r.id) =>
            /\ r.account_balance = LogBalance(r.id)
            /\ r.current_balance * 100 = r.account_balance * (100 + r.roi)

\* C2 (double-spend prevention): two Withdrawals of X for the same investor
\* whose log-derived balance is X never both pass the insufficient-funds check
\* (both accepted, both about to insert their row).
C2_NoDoubleSpend ==
    \A p, q \in Procs :
        (/\ p # q
         /\ req[p].op = "process" /\ req[q].op = "process"
         /\ req[p].pc = "insertTransaction"
         /\ req[p].transaction_type = "Withdrawal"
         /\ req[q].transaction_type = "Withdrawal"
         /\ req[p].investorId = req[q].investorId
         /\ req[p].amountValue = req[q].amountValue
         /\ LogBalance(req[p].investorId) = req[p].amountValue)
        => req[q].pc # "insertTransaction"

\* C3 (atomicity under storage failure): once a recordTransaction has answered
\* 500 and nothing is in flight, every transaction row is reflected in the
\* stored balance of its investor (no row without its balance update).
\* Checked under SpecSeq, one request at a time.
C3_NoPartialEffect ==
    (Quiescent /\ response.op = "process" /\ response.status = 500) =>
        \A r \in investors : r.account_balance = LogBalance(r.id)

\* C4 (insufficient-funds rule): when the sums are read for a Withdrawal whose
\* amount is strictly greater than the balance derived from the rows, the
\* handler answers 400 "Insufficient funds", adds no row and changes no
\* investor row.
C4_InsufficientFundsRejected ==
    [][\A p \in Procs :
          (/\ req[p].op = "process" /\ req[p].pc = "selectSums"
           /\ req[p].transaction_type = "Withdrawal"
           /\ req[p].amountValue > LogBalance(req[p].investorId)
           /\ ProcessSelectSums(p))
          => /\ response'.op = "process" /\ response'.status = 400
             /\ response'.message = "Insufficient funds for withdrawal"
             /\ req'[p] = Idle
             /\ transactions' = transactions
             /\ investors' = investors]_vars

\* a withdrawal has been refused for an investor who holds a positive balance
C4_Witness ==
    /\ response.op = "process" /\ response.status = 400
    /\ response.message = "Insufficient funds for withdrawal"
    /\ \E r \in investors : r.account_balance > 0 /\ LogBalance(r.id) > 0

\* C5 (boundary): a Withdrawal whose amount equals the balance derived from the
\* rows passes the funds check with computed balances 0/0; its INSERT adds
\* exactly one Withdrawal row of that amount; its UPDATE stores 0/0 and the
\* handler answers 200 with account_balance 0 and current_balance 0.
C5_FullWithdrawalAccepted ==
    [][\A p \in Procs :
          LET i == req[p].investorId
              full == /\ req[p].op = "process"
                      /\ req[p].transaction_type = "Withdrawal"
          IN /\ (/\ full /\ req[p].pc = "selectSums"
                 /\ req[p].amountValue = LogBalance(i)
                 /\ ProcessSelectSums(p))
                => /\ req'[p].pc = "insertTransaction"
                   /\ req'[p].accountBalance = 0
                   /\ req'[p].currentBalance = 0
                   /\ response' = response
             /\ (/\ full /\ req[p].pc = "insertTransaction"
                 /\ req[p].accountBalance = 0
                 /\ ProcessInsertTransaction(p))
                => \E t \in transactions' \ transactions :
                      /\ transactions' = transactions \cup {t}
                      /\ t.investor_id = i
                      /\ t.transaction_type = "Withdrawal"
                      /\ t.amount = req[p].amountValue
             /\ (/\ full /\ req[p].pc = "updateInvestor"
                 /\ req[p].accountBalance = 0
                 /\ ProcessUpdateInvestor(p))
                => /\ response'.status = 200
                   /\ response'.account_balance = 0
                   /\ response'.current_balance = 0
                   /\ \A r \in investors' :
                         r.id = i => r.account_balance = 0 /\ r.current_balance = 0]_vars

\* a full withdrawal has been answered 200 with balance 0, its row is in the
\* log and the investor's stored balances are 0
C5_Witness ==
    /\ response.op = "process" /\ response.status = 200
    /\ response.account_balance = 0 /\ response.current_balance = 0
    /\ \E t \in transactions :
          /\ t.transaction_type = "Withdrawal"
          /\ LogBalance(t.investor_id) = 0
          /\ \E r \in investors :
                r.id = t.investor_id /\ r.account_balance = 0 /\ r.current_balance = 0

\* C6 (transaction-type validation): a transaction_type other than "Deposit"
\* and "Withdrawal" is refused before any write, so no row of the log carries
\* another type.
C6_InvalidTypeRejected ==
    \A t \in transactions : t.transaction_type \in {"Deposit", "Withdrawal"}

\* C7 (amount validation): a request whose amount is missing, non-numeric, zero
\* or negative is answered 400 "Invalid transaction details" at entry: no query
\* is issued, the tables and the activations are unchanged.
C7_InvalidAmountRejected ==
    [][\A p \in Procs, investor_id \in InvestorIdInputs,
          transaction_type \in TransactionTypeInputs, amount \in InvalidAmounts :
          ProcessTransaction(p, investor_id, transaction_type, amount)
          => /\ response'.op = "process" /\ response'.status = 400
             /\ response'.message = "Invalid transaction details"
             /\ req' = req
             /\ transactions' = transactions
             /\ investors' = investors]_vars

\* an invalid request has been refused while an investor with rows exists
C7_Witness ==
    /\ response.op = "process" /\ response.status = 400
    /\ response.message = "Invalid transaction details"
    /\ \E r \in investors : RowsOf(r.id) # {} /\ r.account_balance > 0

\* C8 (unknown investor): a request with a valid amount and an investor_id that
\* no investor row carries is answered 404 "Investor not found"; no row is
\* inserted, no investor row is updated, no activation stays in flight.
C8_UnknownInvestorNotFound ==
    [][\A p \in Procs, i \in 1..(MaxInvestors + 1),
          transaction_type \in TransactionTypeInputs, amount \in ValidAmounts :
          (/\ \A r \in investors : r.id # i
           /\ ProcessTransaction(p, NaturalText(i), transaction_type, amount))
          => /\ response'.op = "process" /\ response'.status = 404
             /\ response'.message = "Investor not found"
             /\ req' = req
             /\ transactions' = transactions
             /\ investors' = investors]_vars

\* a request for an unknown id has been answered 404 while another investor exists
C8_Witness ==
    /\ response.op = "process" /\ response.status = 404
    /\ investors # {}

\* C9 (cascade delete): when DELETE /investors/:id answers 200, no transaction
\* row carries that investor id and the investor row is gone (so the log read
\* for that id is empty and SELECT roi finds no row).
C9_CascadeDelete ==
    [][\A p \in Procs :
          LET i == req[p].investorId
          IN (/\ req[p].op = "delete"
              /\ DeleteInvestorRow(p)
              /\ response'.status = 200)
             => /\ {t \in transactions' : t.investor_id = i} = {}
                /\ {r \in investors' : r.id = i} = {}]_vars

\* C10 (deleteInvestor is atomic): once a DELETE /investors/:id has answered
\* anything but success and nothing is in flight, nothing has been removed: no
\* investor row is left holding a positive stored balance without its rows.
\* Checked under SpecSeq, one request at a time.
C10_DeleteAtomic ==
    (Quiescent /\ response.op = "delete" /\ response.status # 200) =>
        \A r \in investors : r.account_balance > 0 => RowsOf(r.id) # {}

\* C11 (listTransactions): GET /transactions/:id with the id of an investor
\* answers 200 with exactly the rows of that investor (each row once, no row
\* of another investor), every element's timestamp >= the next one's, and the
\* empty sequence when the investor has no row.
C11_ListTransactions ==
    [][\A p \in Procs, i \in 1..(MaxInvestors + 1) :
          ListTransactions(p, NaturalText(i)) =>
             LET rows == response'.rows
             IN /\ response'.op = "list" /\ response'.status = 200
                /\ Len(rows) = Cardinality(RowsOf(i))
                /\ \A t \in transactions :
                      Cardinality({k \in 1..Len(rows) : rows[k] = Entry(t)}) =
                      Cardinality({u \in RowsOf(i) : Entry(u) = Entry(t)})
                /\ \A k \in 1..(Len(rows) - 1) :
                      rows[k].transaction_date >= rows[k + 1].transaction_date
                /\ (RowsOf(i) = {} => rows = <<>>)]_vars

\* a history of rows of two instants has been listed, newest first, while a
\* row of another investor is in the table
C11_Witness ==
    /\ response.op = "list" /\ response.status = 200
    /\ Len(response.rows) >= 2
    /\ response.rows[1].transaction_date > response.rows[Len(response.rows)].transaction_date
    /\ \E t, u \in transactions : t.investor_id # u.investor_id

\* C12 (investor creation): a POST /investors/add carrying the four required
\* fields is answered 201, and the step that creates an investor (it draws an
\* id) answers 201 and adds exactly one investor row, with account_balance 0,
\* current_balance 0, status "Active" and no transaction row under its id, so
\* that the new investor satisfies the cache invariant; no other row of
\* either table changes.
C12_InvestorCreation ==
    [][/\ \A p \in Procs, roi \in RoiInputs \ {Missing} :
             AddInvestor(p, "Ann", "Savings", "12", roi) => response'.status = 201
       /\ nextInvestorId' # nextInvestorId
             => \E r \in investors' \ investors :
                   /\ response'.op = "add" /\ response'.status = 201
                   /\ investors' = investors \cup {r}
                   /\ transactions' = transactions
                   /\ r.id = response'.investorId
                   /\ r.account_balance = 0 /\ r.current_balance = 0
                   /\ r.status = "Active"
                   /\ RowsOf(r.id) = {}
                   /\ r.account_balance = LogBalance(r.id)
                   /\ r.current_balance * 100 = r.account_balance * (100 + r.roi)]_vars

\* an investor with a non-zero ROI has just been created: zero balances, no row
C12_Witness ==
    /\ response.op = "add" /\ response.status = 201
    /\ \E r \in investors :
          /\ r.id = response.investorId /\ r.roi > 0
          /\ r.account_balance = 0 /\ r.current_balance = 0 /\ r.status = "Active"
          /\ RowsOf(r.id) = {}

\* C13 (append-only log): across every step, for every investor that exists
\* before and after the step, every transaction row of that investor is still
\* there afterwards, unchanged in type, amount and timestamp; and a row
\* disappears only in the cascade of a DELETE /investors/:id for its investor.
\* Checked under SpecSeq, one request at a time.
C13_AppendOnlyLog ==
    [][/\ \A r \in investors :
             (\E r2 \in investors' : r2.id = r.id) =>
                 \A t \in RowsOf(r.id) :
                     \E u \in transactions' :
                         /\ u.id = t.id /\ u.investor_id = t.investor_id
                         /\ u.transaction_type = t.transaction_type
                         /\ u.amount = t.amount
                         /\ u.transaction_date = t.transaction_date
       /\ \A t \in transactions \ transactions' :
             \E p \in Procs : /\ req'[p].op = "delete"
                              /\ req'[p].investorId = t.investor_id]_vars

\* the log of investor i in order of insertion: type and amount of each row
LogOf(i) ==
    LET n == Cardinality(RowsOf(i))
        byId == CHOOSE f \in [1..n -> RowsOf(i)] :
                    \A a, b \in 1..n : a < b => f[a].id < f[b].id
    IN [k \in 1..n |-> <<byId[k].transaction_type, byId[k].amount>>]

\* the investor's stored balances
Stored(r, account_balance, current_balance) ==
    r.account_balance = account_balance /\ r.current_balance = current_balance

\* the call of activation p has got so far: its UPDATE done, answered 200 with
\* these balances, which the row of its investor holds
Answered(p, account_balance, current_balance) ==
    /\ response'.status = 200
    /\ response'.account_balance = account_balance
    /\ response'.current_balance = current_balance
    /\ \E r \in investors' :
          r.id = req[p].investorId /\ Stored(r, account_balance, current_balance)

\* C14 (worked example, non-compounding): for an investor with ROI 10 and no
\* transaction, the calls deposit 100, withdraw 40, withdraw 100, one after the
\* other, answer 100/110, then 60/66, then a rejection that leaves the stored
\* balances at 60/66; and every balance update stores the computed
\* account_balance with current_balance = account_balance * (1 + roi/100),
\* whatever current_balance was stored before.
C14_WorkedExample ==
    [][\A p \in Procs :
          LET i == req[p].investorId
              example == req[p].op = "process" /\ req[p].roi = 10
          IN /\ (/\ example /\ LogOf(i) = <<<<"Deposit", 100>>>>
                 /\ ProcessUpdateInvestor(p))
                => Answered(p, 100, 110)
             /\ (/\ example
                 /\ LogOf(i) = <<<<"Deposit", 100>>, <<"Withdrawal", 40>>>>
                 /\ ProcessUpdateInvestor(p))
                => Answered(p, 60, 66)
             /\ (/\ example /\ req[p].pc = "selectSums"
                 /\ LogOf(i) = <<<<"Deposit", 100>>, <<"Withdrawal", 40>>>>
                 /\ req[p].transaction_type = "Withdrawal"
                 /\ req[p].amountValue = 100
                 /\ ProcessSelectSums(p))
                => /\ response'.status = 400
                   /\ response'.message = "Insufficient funds for withdrawal"
                   /\ transactions' = transactions /\ investors' = investors
                   /\ \E r \in investors' : r.id = i /\ Stored(r, 60, 66)
             /\ (req[p].op = "process" /\ ProcessUpdateInvestor(p))
                => \A r \in investors' :
                      r.id = i =>
                         /\ r.account_balance = req[p].accountBalance
                         /\ r.current_balance * 100 =
                                r.account_balance * (100 + r.roi)]_vars

\* deposit 100 and withdraw 40 are recorded, withdraw 100 has just been
\* rejected, and the ROI 10 investor holds 60/66
C14_Witness ==
    /\ Quiescent
    /\ response.op = "process" /\ response.status = 400
    /\ response.message = "Insufficient funds for withdrawal"
    /\ \E r \in investors :
          /\ r.roi = 10 /\ Stored(r, 60, 66)
          /\ LogOf(r.id) = <<<<"Deposit", 100>>, <<"Withdrawal", 40>>>>

\* C15 (single mutation path): a step that adds a transaction row is the
\* INSERT of a POST /transactions/process, and a step that changes the stored
\* account_balance or current_balance of an existing investor is the UPDATE of
\* a POST /transactions/process; no other endpoint does either.
\* Checked under SpecWriters, one request at a time, no storage failure.
C15_SingleMutationPath ==
    [][/\ (transactions' \ transactions # {}) =>
             \E p \in Procs : /\ req[p].op = "process"
                              /\ req[p].pc = "insertTransaction"
                              /\ req'[p].pc = "updateInvestor"
       /\ \A r \in investors, r2 \in investors' :
             (/\ r2.id = r.id
              /\ ~Stored(r2, r.account_balance, r.current_balance))
             => \E p \in Procs : /\ req[p].op = "process"
                                 /\ req[p].pc = "updateInvestor"
                                 /\ req[p].investorId = r.id]_vars

\* C16 (response equals persisted values): POST /transactions/process answers
\* 200 with the balances it has computed, and its UPDATE, run on an existing
\* investor row, leaves exactly the answer's account_balance and
\* current_balance in that row.
C16_ResponseIsPersisted ==
    [][\A p \in Procs :
          (req[p].op = "process" /\ ProcessUpdateInvestor(p)) =>
              /\ response'.status = 200
              /\ response'.account_balance = req[p].accountBalance
              /\ response'.current_balance = req[p].currentBalance
              /\ (\E r \in investors : r.id = req[p].investorId) =>
                    \E r \in investors' :
                       /\ r.id = req[p].investorId
                       /\ Stored(r, response'.account_balance,
                                 response'.current_balance)]_vars

\* a call has answered 200 with a positive balance and its interest, and the
\* investor row holds the same two values
C16_Witness ==
    /\ response.op = "process" /\ response.status = 200
    /\ response.account_balance > 0
    /\ response.current_balance > response.account_balance
    /\ \E r \in investors :
          Stored(r, response.account_balance, response.current_balance)

\* C17 (exclusive ownership, no orphans): in every reachable state each
\* transaction row's investor_id is the id of an investor row that exists.
C17_NoOrphans ==
    \A t \in transactions : \E r \in investors : r.id = t.investor_id

\* C18 (principal never negative in the log): in every state reached by
\* POST /transactions/process calls, interleaved in any way, every investor's
\* sum(Deposit) - sum(Withdrawal) over its rows is >= 0.
C18_LogBalanceNonNegative ==
    \A r \in investors : LogBalance(r.id) >= 0

\* C19 (stored balance never negative): in every state reached by
\* POST /transactions/process calls, interleaved in any way, every investor's
\* stored account_balance is >= 0 and, its ROI being >= 0, its stored
\* current_balance is >= its account_balance.
\* Checked under SpecFunded: the investor starts with a recorded Deposit of 100.
C19_StoredBalanceNonNegative ==
    \A r \in investors :
        /\ r.account_balance >= 0
        /\ r.roi >= 0 => r.current_balance >= r.account_balance

====
